---- MODULE Spec2Model ----
(***************************************************************************)
(* A model of pkhuong/raffle: paired vouching / checking parameters that   *)
(* implement an affine transform over the integers modulo 2^64.            *)
(*                                                                         *)
(* A u64 is a tuple of 8 bytes, least significant first (TLC's integers    *)
(* are 32 bits wide, so 64-bit values are kept as limbs and the wrapping   *)
(* operations of the source are computed limb by limb, modulo 2^64).       *)
(* A byte string (&[u8]) is a sequence of numbers in 0..255; index i of    *)
(* the source is element i+1 of the sequence.                              *)
(***************************************************************************)
EXTENDS Integers, Sequences, FiniteSets, TLC

VARIABLES pc, seeds, params, tamper, selfcheck, call, wire, kind, mutation

vars == <<pc, seeds, params, tamper, selfcheck, call, wire, kind, mutation>>

(***************************************************************************)
(* 64-bit wrapping arithmetic (Rust's u64::wrapping_* and bit operators).  *)
(***************************************************************************)
RECURSIVE LeBytes(_, _)
\* The k low bytes of the small number n, least significant first.
LeBytes(n, k) == IF k = 0 THEN <<>> ELSE <<n % 256>> \o LeBytes(n \div 256, k - 1)

\* A small literal as u64 (the source's 0, 1, 2, 43u64, ...).
U(n) == LeBytes(n, 8)

ZERO == U(0)

MAX == [i \in 1..8 |-> 255]

RECURSIVE AddLimbs(_, _, _, _)
AddLimbs(a, b, i, carry) ==
    IF i > 8 THEN <<>>
    ELSE LET s == a[i] + b[i] + carry
         IN  <<s % 256>> \o AddLimbs(a, b, i + 1, s \div 256)

RECURSIVE AddCarry(_, _, _, _)
\* The carry out of the 64-bit sum a + b: 1 when the sum does not fit.
AddCarry(a, b, i, carry) ==
    IF i > 8 THEN carry
    ELSE AddCarry(a, b, i + 1, (a[i] + b[i] + carry) \div 256)

wrapping_add(a, b) == AddLimbs(a, b, 1, 0)

RECURSIVE XorByte(_, _)
XorByte(x, y) ==
    IF x = 0 /\ y = 0 THEN 0
    ELSE ((x + y) % 2) + 2 * XorByte(x \div 2, y \div 2)

\* a ^ b
xor(a, b) == [i \in 1..8 |-> XorByte(a[i], b[i])]

\* !a
not(a) == [i \in 1..8 |-> 255 - a[i]]

\* a | 1
or1(a) == [a EXCEPT ![1] = IF a[1] % 2 = 0 THEN a[1] + 1 ELSE a[1]]

wrapping_neg(a) == wrapping_add(not(a), U(1))

wrapping_sub(a, b) == wrapping_add(a, wrapping_neg(b))

RECURSIVE ColSum(_, _, _, _)
\* The sum of the limb products a[i] * b[k+1-i] .. a[k] * b[1] of column k.
ColSum(a, b, k, i) ==
    IF i > k THEN 0 ELSE a[i] * b[k + 1 - i] + ColSum(a, b, k, i + 1)

RECURSIVE MulLimbs(_, _, _, _)
MulLimbs(a, b, k, carry) ==
    IF k > 8 THEN <<>>
    ELSE LET s == carry + ColSum(a, b, k, 1)
         IN  <<s % 256>> \o MulLimbs(a, b, k + 1, s \div 256)

wrapping_mul(a, b) == MulLimbs(a, b, 1, 0)

RECURSIVE Pow2Byte(_)
Pow2Byte(n) == IF n = 0 THEN 1 ELSE 2 * Pow2Byte(n - 1)

\* 1u64 << n, for n in 0..63.
Bit(n) == [i \in 1..8 |-> IF i = (n \div 8) + 1 THEN Pow2Byte(n % 8) ELSE 0]

\* a.wrapping_shl(n): the shift amount is taken modulo 64; the bits shifted
\* past bit 63 are lost.  Limb i of the result takes the low bits of limb i - q
\* and the bits carried out of limb i - q - 1, for n = 8 * q + r.
wrapping_shl(a, n) ==
    LET q == (n % 64) \div 8
        p == Pow2Byte((n % 64) % 8)
    IN  [i \in 1..8 |->
            (IF i - q >= 1 THEN (a[i - q] * p) % 256 ELSE 0)
            + (IF i - q - 1 >= 1 THEN (a[i - q - 1] * p) \div 256 ELSE 0)]

\* u64::from_le_bytes
from_le_bytes(bytes) == bytes

\* A hexadecimal literal of the source, given by its 8 bytes as written
\* (most significant first).
Lit(bytes) == [i \in 1..8 |-> bytes[9 - i]]

\* A decimal literal of the source, given by its digits as written, in three
\* groups: the leading digits, then two groups of 7 digits (10^7 fits a limb
\* product; the literal itself does not fit TLC's integers).
Dec(hi, mid, lo) ==
    wrapping_add(
        wrapping_mul(wrapping_add(wrapping_mul(U(hi), U(10000000)), U(mid)), U(10000000)),
        U(lo))

(***************************************************************************)
(* Results.  A call either returns a value or faults (Rust's panic) with   *)
(* a message.                                                              *)
(***************************************************************************)
Ok(v) == [panic |-> "", val |-> v]

Panic(msg) == [panic |-> msg, val |-> <<>>]

Returned(r) == r.panic = ""

(***************************************************************************)
(* constparse.rs, check.rs, vouch.rs: the named constants.                 *)
(***************************************************************************)
named_u64(name, expected) ==
    LET ret == from_le_bytes(name)
    IN  IF ret = expected THEN Ok(ret) ELSE Panic("assertion failed: ret == expected")

\* b"Vouch!OK", 0x4b4f216863756f56
WANTED_SUM ==
    named_u64(<<86, 111, 117, 99, 104, 33, 79, 75>>,
              Lit(<<75, 79, 33, 104, 99, 117, 111, 86>>)).val

\* b"Checking", 0x676e696b63656843
CHECKING_TAG ==
    named_u64(<<67, 104, 101, 99, 107, 105, 110, 103>>,
              Lit(<<103, 110, 105, 107, 99, 101, 104, 67>>)).val

\* "Vouching", 0x676e696863756f56 (the literal of constparse.rs's test_named_u64)
VOUCHING_TAG ==
    named_u64(<<86, 111, 117, 99, 104, 105, 110, 103>>,
              Lit(<<103, 110, 105, 104, 99, 117, 111, 86>>)).val

(***************************************************************************)
(* check.rs: check                                                         *)
(***************************************************************************)
\* check comparing only the low 32 bits of the sum with WANTED_SUM.
check_low_half(unoffset, unscale, expected, voucher) ==
    LET unvouched_value ==
            wrapping_mul(wrapping_add(voucher, unoffset), xor(unscale, CHECKING_TAG))
    IN  SubSeq(wrapping_add(unvouched_value, expected), 1, 4) = SubSeq(WANTED_SUM, 1, 4)

\* check removing the vouching tag instead of the checking tag.
check_wrong_tag(unoffset, unscale, expected, voucher) ==
    LET unvouched_value ==
            wrapping_mul(wrapping_add(voucher, unoffset), xor(unscale, VOUCHING_TAG))
    IN  wrapping_add(unvouched_value, expected) = WANTED_SUM

check(unoffset, unscale, expected, voucher) ==
    LET unvouched_value ==
            wrapping_mul(wrapping_add(voucher, unoffset), xor(unscale, CHECKING_TAG))
    IN  wrapping_add(unvouched_value, expected) = WANTED_SUM

(***************************************************************************)
(* vouch.rs: vouch                                                         *)
(***************************************************************************)
VOUCH_FAILED == "failed to check voucher; parameters incorrect."

\* vouch without its assertion.
vouch_unchecked(offset, scale, checking, value) ==
    Ok(wrapping_mul(wrapping_add(value, offset), xor(scale, VOUCHING_TAG)))

vouch(offset, scale, checking, value) ==
    LET ret == wrapping_mul(wrapping_add(value, offset), xor(scale, VOUCHING_TAG))
    IN  IF check(checking[1], checking[2], value, ret)
        THEN Ok(ret)
        ELSE Panic(VOUCH_FAILED)

(***************************************************************************)
(* generate.rs: modinverse, check_parameters_or_die, derive_parameters     *)
(***************************************************************************)
\* One Newton iteration: x * (2 - a * x).
Newton(a, x) == wrapping_mul(x, wrapping_sub(U(2), wrapping_mul(a, x)))

\* modinverse with three Newton iterations instead of four.
modinverse_three_iterations(a0) ==
    LET a  == or1(a0)
        x0 == xor(wrapping_mul(a, U(3)), U(2))
        x1 == Newton(a, x0)
        x2 == Newton(a, x1)
        x  == Newton(a, x2)
    IN  IF wrapping_mul(a, x) = U(1)
        THEN Ok(x)
        ELSE Panic("assertion failed: a.wrapping_mul(x) == 1")

modinverse(a0) ==
    LET a  == or1(a0)
        x0 == xor(wrapping_mul(a, U(3)), U(2))
        x1 == Newton(a, x0)
        x2 == Newton(a, x1)
        x3 == Newton(a, x2)
        x  == Newton(a, x3)
    IN  IF wrapping_mul(a, x) = U(1)
        THEN Ok(x)
        ELSE Panic("assertion failed: a.wrapping_mul(x) == 1")

\* the "random" point: 0x110d2ae90b38f555u64
RANDOM_POINT == Lit(<<17, 13, 42, 233, 11, 56, 245, 85>>)

\* The points at which check_parameters_or_die calls vouch, in order.
SamplePoints == <<U(0), U(1), U(2), RANDOM_POINT>>

RECURSIVE VouchFrom(_, _, _, _)
\* The calls to vouch from the i-th on: the first fault ends the function.
VouchFrom(offset, scale, checking, i) ==
    IF i > Len(SamplePoints) THEN Ok(<<>>)
    ELSE LET r == vouch(offset, scale, checking, SamplePoints[i])
         IN  IF Returned(r) THEN VouchFrom(offset, scale, checking, i + 1)
             ELSE Panic(r.panic)

\* check_parameters_or_die calling vouch at the first point only.
check_parameters_or_die_one_point(offset, scale, checking) ==
    LET r == vouch(offset, scale, checking, SamplePoints[1])
    IN  IF Returned(r) THEN Ok(<<>>) ELSE Panic(r.panic)

check_parameters_or_die(offset, scale, checking) ==
    VouchFrom(offset, scale, checking, 1)

\* derive_parameters without the negation of the inverse.
derive_parameters_no_neg(scale_seed, unoffset) ==
    LET scale == or1(scale_seed)
        inv   == modinverse(scale)
    IN  IF ~Returned(inv) THEN Panic(inv.panic)
        ELSE LET unscale   == inv.val
                 offset    == wrapping_sub(wrapping_mul(unscale, unoffset), WANTED_SUM)
                 scale_t   == xor(scale, VOUCHING_TAG)
                 unscale_t == xor(unscale, CHECKING_TAG)
                 chk       == check_parameters_or_die(offset, scale_t,
                                                      <<unoffset, unscale_t>>)
             IN  IF ~Returned(chk) THEN Panic(chk.panic)
                 ELSE Ok(<<offset, scale_t, <<unoffset, unscale_t>>>>)

\* derive_parameters computing the offset from the seed before `scale | 1`.
derive_parameters_even_scale(scale_seed, unoffset) ==
    LET scale == scale_seed
        inv   == modinverse(scale)
    IN  IF ~Returned(inv) THEN Panic(inv.panic)
        ELSE LET unscale   == wrapping_neg(inv.val)
                 offset    == wrapping_sub(wrapping_mul(unscale, unoffset), WANTED_SUM)
                 scale_t   == xor(scale, VOUCHING_TAG)
                 unscale_t == xor(unscale, CHECKING_TAG)
                 chk       == check_parameters_or_die(offset, scale_t,
                                                      <<unoffset, unscale_t>>)
             IN  IF ~Returned(chk) THEN Panic(chk.panic)
                 ELSE Ok(<<offset, scale_t, <<unoffset, unscale_t>>>>)

derive_parameters(scale_seed, unoffset) ==
    LET scale == or1(scale_seed)
        inv   == modinverse(scale)
    IN  IF ~Returned(inv) THEN Panic(inv.panic)
        ELSE LET unscale   == wrapping_neg(inv.val)
                 offset    == wrapping_sub(wrapping_mul(unscale, unoffset), WANTED_SUM)
                 scale_t   == xor(scale, VOUCHING_TAG)
                 unscale_t == xor(unscale, CHECKING_TAG)
                 chk       == check_parameters_or_die(offset, scale_t,
                                                      <<unoffset, unscale_t>>)
             IN  IF ~Returned(chk) THEN Panic(chk.panic)
                 ELSE Ok(<<offset, scale_t, <<unoffset, unscale_t>>>>)

(***************************************************************************)
(* constparse.rs: parse_hex.  An Option<u64> is a sequence of at most one  *)
(* u64: None is <<>> and Some(v) is <<v>>.                                 *)
(***************************************************************************)
None == <<>>

Some(v) == <<v>>

\* bytes[i]: indexing past the end faults.
Index(bytes, i) ==
    IF i < Len(bytes) THEN Ok(bytes[i + 1])
    ELSE Panic("index out of bounds")

\* a + b on u64: the overflow check of the build the tests run in faults (a
\* build without overflow checks wraps).
checked_add(a, b) ==
    IF AddCarry(a, b, 1, 0) = 0 THEN Ok(wrapping_add(a, b))
    ELSE Panic("attempt to add with overflow")

\* The match with the arm b'A'..=b'F' => byte - b'A', without the 10.
digit_of_upper_low(byte) ==
    IF 48 <= byte /\ byte <= 57 THEN byte - 48
    ELSE IF 97 <= byte /\ byte <= 102 THEN 10 + (byte - 97)
    ELSE IF 65 <= byte /\ byte <= 70 THEN byte - 65
    ELSE -1

\* The match on the byte: the digit's value, or -1 for the `_` arm.
digit_of(byte) ==
    IF 48 <= byte /\ byte <= 57 THEN byte - 48
    ELSE IF 97 <= byte /\ byte <= 102 THEN 10 + (byte - 97)
    ELSE IF 65 <= byte /\ byte <= 70 THEN 10 + (byte - 65)
    ELSE -1

\* a - b on usize: a difference below zero faults (the overflow check of the
\* build the tests run in; a build without overflow checks wraps).
usize_sub(a, b) ==
    IF a >= b THEN Ok(a - b)
    ELSE Panic("attempt to subtract with overflow")

\* update without the test `base >= bytes.len()` before the subtraction.
update_no_base_guard(acc, bytes, base, idx) ==
    LET rest == usize_sub(Len(bytes), base)
    IN  IF ~Returned(rest) THEN Panic(rest.panic)
    ELSE IF idx >= rest.val THEN Ok(None)
    ELSE IF acc # None
    THEN LET byte == Index(bytes, base + idx)
         IN  IF ~Returned(byte) THEN Panic(byte.panic)
             ELSE LET digit == digit_of(byte.val)
                  IN  IF digit < 0 THEN Ok(None)
                      ELSE LET sum == checked_add(acc[1],
                                          wrapping_shl(U(digit), 4 * (15 - idx)))
                           IN  IF Returned(sum) THEN Ok(Some(sum.val))
                               ELSE Panic(sum.panic)
    ELSE Ok(None)

\* `base >= bytes.len() || idx >= bytes.len() - base`: the subtraction is
\* evaluated only when the first test is false.
update(acc, bytes, base, idx) ==
    IF base >= Len(bytes) THEN Ok(None)
    ELSE LET rest == usize_sub(Len(bytes), base)
    IN  IF ~Returned(rest) THEN Panic(rest.panic)
    ELSE IF idx >= rest.val THEN Ok(None)
    ELSE IF acc # None
    THEN LET byte == Index(bytes, base + idx)
         IN  IF ~Returned(byte) THEN Panic(byte.panic)
             ELSE LET digit == digit_of(byte.val)
                  IN  IF digit < 0 THEN Ok(None)
                      ELSE LET sum == checked_add(acc[1],
                                          wrapping_shl(U(digit), 4 * (15 - idx)))
                           IN  IF Returned(sum) THEN Ok(Some(sum.val))
                               ELSE Panic(sum.panic)
    ELSE Ok(None)

RECURSIVE UpdateFrom(_, _, _, _)
\* The calls acc = update(acc, bytes, base, idx) for idx, idx + 1, .., 15.
UpdateFrom(acc, bytes, base, idx) ==
    IF idx > 15 THEN Ok(acc)
    ELSE LET r == update(acc, bytes, base, idx)
         IN  IF Returned(r) THEN UpdateFrom(r.val, bytes, base, idx + 1)
             ELSE r

parse_hex(bytes, base) == UpdateFrom(Some(U(0)), bytes, base, 0)

(***************************************************************************)
(* check.rs, vouch.rs: parse_bytes.  A Result is [tag |-> "Ok", v |-> ..]  *)
(* or [tag |-> "Err", err |-> message].                                    *)
(***************************************************************************)
ResOk(v) == Ok([tag |-> "Ok", v |-> v, err |-> ""])

ResErr(msg) == Ok([tag |-> "Err", v |-> <<>>, err |-> msg])

IsOk(r) == Returned(r) /\ r.val.tag = "Ok"

IsErr(r) == Returned(r) /\ r.val.tag = "Err"

RECURSIVE PrefixTestFive(_, _, _)
\* The prefix test without its last comparison, bytes[5] != b'-'.
PrefixTestFive(bytes, prefix, i) ==
    IF i >= Len(prefix) - 1 THEN Ok("same")
    ELSE LET b == Index(bytes, i)
         IN  IF ~Returned(b) THEN Panic(b.panic)
             ELSE IF b.val # prefix[i + 1] THEN Ok("differs")
             ELSE PrefixTestFive(bytes, prefix, i + 1)

RECURSIVE PrefixTest(_, _, _)
\* bytes[0] != p[0] || bytes[1] != p[1] || ..., left to right: "differs" at the
\* first byte that differs, a fault when a byte read is past the end.
PrefixTest(bytes, prefix, i) ==
    IF i >= Len(prefix) THEN Ok("same")
    ELSE LET b == Index(bytes, i)
         IN  IF ~Returned(b) THEN Panic(b.panic)
             ELSE IF b.val # prefix[i + 1] THEN Ok("differs")
             ELSE PrefixTest(bytes, prefix, i + 1)

\* bytes[i] != b'-'
NotDash(bytes, i) ==
    LET b == Index(bytes, i)
    IN  IF Returned(b) THEN Ok(b.val # 45) ELSE Panic(b.panic)

check_REPRESENTATION_BYTE_COUNT == 39

vouch_REPRESENTATION_BYTE_COUNT == 73

\* "CHECK-"
CHECK_PREFIX == <<67, 72, 69, 67, 75, 45>>

\* "VOUCH-"
VOUCH_PREFIX == <<86, 79, 85, 67, 72, 45>>

\* check::parse_bytes after its two length tests.
check_parse_fields(bytes) ==
    LET prefix == PrefixTest(bytes, CHECK_PREFIX, 0)
    IN  IF ~Returned(prefix) THEN prefix
    ELSE IF prefix.val = "differs"
    THEN ResErr("Incorrect prefix for raffle::CheckingParameters. Expected CHECK-")
    ELSE LET unoffset == parse_hex(bytes, 6)
    IN  IF ~Returned(unoffset) THEN unoffset
    ELSE IF unoffset.val = None
    THEN ResErr("Failed to parse hex unoffset in raffle::CheckingParameters.")
    ELSE LET dash == NotDash(bytes, 22)
    IN  IF ~Returned(dash) THEN dash
    ELSE IF dash.val
    THEN ResErr("Missing dash separator after unoffset in raffle::CheckingParameters")
    ELSE LET unscale == parse_hex(bytes, 23)
    IN  IF ~Returned(unscale) THEN unscale
    ELSE IF unscale.val = None
    THEN ResErr("Failed to parse hex uscale in raffle::CheckingParameters.")
    ELSE ResOk(<<unoffset.val[1], unscale.val[1]>>)

\* check::parse_bytes without the test for too few bytes.
check_parse_bytes_no_short(bytes) ==
    IF Len(bytes) > check_REPRESENTATION_BYTE_COUNT
    THEN ResErr("Too many bytes in serialized raffle::CheckingParameters")
    ELSE check_parse_fields(bytes)

check_parse_bytes(bytes) ==
    IF Len(bytes) < check_REPRESENTATION_BYTE_COUNT
    THEN ResErr("Too few bytes in serialized raffle::CheckingParameters")
    ELSE IF Len(bytes) > check_REPRESENTATION_BYTE_COUNT
    THEN ResErr("Too many bytes in serialized raffle::CheckingParameters")
    ELSE check_parse_fields(bytes)

vouch_parse_bytes(bytes) ==
    IF Len(bytes) < vouch_REPRESENTATION_BYTE_COUNT
    THEN ResErr("Too few bytes in serialized raffle::VouchingParameters")
    ELSE IF Len(bytes) > vouch_REPRESENTATION_BYTE_COUNT
    THEN ResErr("Too many bytes in serialized raffle::VouchingParameters")
    ELSE LET prefix == PrefixTest(bytes, VOUCH_PREFIX, 0)
    IN  IF ~Returned(prefix) THEN prefix
    ELSE IF prefix.val = "differs"
    THEN ResErr("Incorrect prefix for serialized raffle::VouchingParameters. Expected VOUCH-")
    ELSE LET offset == parse_hex(bytes, 6)
    IN  IF ~Returned(offset) THEN offset
    ELSE IF offset.val = None
    THEN ResErr("Failed to parse hex offset in serialized raffle::VouchingParameters.")
    ELSE LET dash1 == NotDash(bytes, 22)
    IN  IF ~Returned(dash1) THEN dash1
    ELSE IF dash1.val
    THEN ResErr("Missing dash separator after offset in serialized raffle::VouchingParameters")
    ELSE LET scale == parse_hex(bytes, 23)
    IN  IF ~Returned(scale) THEN scale
    ELSE IF scale.val = None
    THEN ResErr("Failed to parse hex scale in serialized raffle::VouchingParameters.")
    ELSE LET dash2 == NotDash(bytes, 39)
    IN  IF ~Returned(dash2) THEN dash2
    ELSE IF dash2.val
    THEN ResErr("Missing dash separator after scale in serialized raffle::VouchingParameters")
    ELSE LET unoffset == parse_hex(bytes, 40)
    IN  IF ~Returned(unoffset) THEN unoffset
    ELSE IF unoffset.val = None
    THEN ResErr("Failed to parse hex unoffset in serialized raffle::VouchingParameters.")
    ELSE LET dash3 == NotDash(bytes, 56)
    IN  IF ~Returned(dash3) THEN dash3
    ELSE IF dash3.val
    THEN ResErr("Missing dash separator after unoffset in serialized raffle::VouchingParameters")
    ELSE LET unscale == parse_hex(bytes, 57)
    IN  IF ~Returned(unscale) THEN unscale
    ELSE IF unscale.val = None
    THEN ResErr("Failed to parse hex unscale in serialized raffle::VouchingParameters.")
    ELSE ResOk(<<offset.val[1], scale.val[1], <<unoffset.val[1], unscale.val[1]>>>>)

(***************************************************************************)
(* Serialization (the Display implementations, spec section 4.5, and the   *)
(* format!("CHECK-{:016x}-{:016x}", ..) of the tests).                     *)
(***************************************************************************)
HexChar(nibble, upper) ==
    IF nibble < 10 THEN 48 + nibble
    ELSE (IF upper THEN 65 ELSE 97) + (nibble - 10)

\* {:016x} (upper: {:016X}): 16 zero-padded hex digits, most significant first.
format_hex16(v, upper) ==
    [k \in 1..16 |->
        LET byte == v[8 - ((k - 1) \div 2)]
        IN  HexChar(IF k % 2 = 1 THEN byte \div 16 ELSE byte % 16, upper)]

serialize_checking(checking, upper) ==
    CHECK_PREFIX \o format_hex16(checking[1], upper) \o <<45>>
                 \o format_hex16(checking[2], upper)

serialize_vouching(p, upper) ==
    VOUCH_PREFIX \o format_hex16(p[1], upper) \o <<45>>
                 \o format_hex16(p[2], upper) \o <<45>>
                 \o format_hex16(p[3][1], upper) \o <<45>>
                 \o format_hex16(p[3][2], upper)

(***************************************************************************)
(* The inputs the operations are applied to.                               *)
(***************************************************************************)
\* The number of further 64-bit values, beyond the edge cases, the inputs
\* are drawn from.
NumSamples == 2

\* The number of inputs of modinverse beyond the edge cases.
NumInverse == 256

\* The number of quadruples of samples that are serialized.
NumQuads == 1

\* The longest buffer handed to a parser, beyond the longest format.
MaxExtra == 2

\* 0x9e3779b97f4a7c15: the multiples of this odd number spread over all 64 bits.
SPREAD == Lit(<<158, 55, 121, 185, 127, 74, 124, 21>>)

Sample(i) == wrapping_mul(U(i), SPREAD)

Samples == {Sample(i) : i \in 1..NumSamples}

\* Seeds of derive_parameters: the pairs of the tests, (0, 0), (1, 1),
\* (u64::MAX, u64::MAX), (43, 123), and the samples.
Seeds == {U(0), U(1), MAX, U(43), U(123)} \cup Samples

\* Values to vouch for.
Values == {U(0), U(1), U(2), RANDOM_POINT, MAX} \cup Samples

\* Inputs of modinverse: even and odd, small and large.
InverseInputs ==
    {U(0), U(1), U(2), U(3), MAX, wrapping_sub(MAX, U(1)), Bit(63), Bit(32),
     WANTED_SUM, CHECKING_TAG, VOUCHING_TAG, RANDOM_POINT}
    \cup {Sample(i) : i \in 1..NumInverse}

\* Arbitrary inputs of check: values that were never derived, among them
\* unscale = CHECKING_TAG and CHECKING_TAG ^ 2, whose de-tagged values 0 and 2
\* are even.
RawInputs ==
    {U(0), U(1), MAX, WANTED_SUM, CHECKING_TAG, xor(CHECKING_TAG, U(2))} \cup Samples

\* VOUCHING_TAG ^ CHECKING_TAG
RETAG == xor(VOUCHING_TAG, CHECKING_TAG)

TamperKinds ==
    {"swap", "swap_retag", "flip_unscale_msb", "flip_scale_lsb", "bump_offset",
     "bump_unoffset"}

\* Parameters other than the derived ones: the swaps of test_swap_params and
\* test_swap_params_retag, and single fields changed.
Tampered(k, p) ==
    CASE k = "swap" -> <<p[3][1], p[3][2], <<p[1], p[2]>>>>
      [] k = "swap_retag" ->
            <<p[3][1], xor(p[3][2], RETAG), <<p[1], xor(p[2], RETAG)>>>>
      [] k = "flip_unscale_msb" -> <<p[1], p[2], <<p[3][1], xor(p[3][2], Bit(63))>>>>
      [] k = "flip_scale_lsb" -> <<p[1], xor(p[2], U(1)), p[3]>>
      [] k = "bump_offset" -> <<wrapping_add(p[1], U(1)), p[2], p[3]>>
      [] k = "bump_unoffset" -> <<p[1], p[2], <<wrapping_add(p[3][1], U(1)), p[3][2]>>>>

\* (e + offset) * (scale ^ VOUCHING_TAG) modulo 2^64
VoucherFor(p, e) == wrapping_mul(wrapping_add(e, p[1]), xor(p[2], VOUCHING_TAG))

\* Candidate vouchers for e: the right one, its neighbours, the vouchers of the
\* other values, and the extremes.
Vouchers(p, e) ==
    LET w == VoucherFor(p, e)
    IN  {w, wrapping_add(w, U(1)), xor(w, Bit(63)), xor(w, Bit(32)), U(0), MAX}
        \cup {VoucherFor(p, x) : x \in Values}

\* Field values to serialize: every hex digit in both halves of a field, the
\* values of the tests, and the samples.
FieldQuads ==
    {<<U(0), MAX, <<Lit(<<1, 35, 69, 103, 137, 171, 205, 239>>),
                    Lit(<<254, 220, 186, 152, 118, 84, 50, 16>>)>>>>,
     <<U(1234), U(5678), <<U(987), U(432)>>>>}
    \cup {<<Sample(i), Sample(i + 1), <<Sample(i + 2), Sample(i + 3)>>>> :
             i \in 1..NumQuads}

\* Bytes to put in place of a byte of a serialized string: 0, 255, '-', '.',
\* the bytes next to the ranges 0-9, A-F and a-f ('/', ':', '@', 'G', '`',
\* 'g'), 'h', and the hex digits '0', 'F', 'a'.
MutBytes == {0, 45, 46, 47, 48, 58, 64, 70, 71, 96, 97, 103, 104, 255}

\* The most bytes that precede a hex field in a buffer of its own.
MaxLead == 2

\* The values of test_parse_hex: 0x123456789abcdef0, 0xa0b1c2d3e4f56789, 42
\* and u64::MAX.
HexValues ==
    {Lit(<<18, 52, 86, 120, 154, 188, 222, 240>>),
     Lit(<<160, 177, 194, 211, 228, 245, 103, 137>>), U(42), MAX}

\* Bytes to put in place of a digit of a hex field: the bytes next to the
\* ranges 0-9, A-F and a-f, 'x', and the hex digit 'F'.
SpoilBytes == {47, 58, 64, 70, 71, 96, 103, 120}

\* Bytes to fill a buffer of arbitrary length with: 0, '-', '0'.
FillBytes == {0, 45, 48}

NoCall == [fn |-> "", args |-> <<>>, ret |-> Ok(<<>>)]

NoMutation == [op |-> "none", pos |-> 0, byte |-> 0, was |-> 0]

(***************************************************************************)
(* The state machine.  pc is where a run stands: "start", then parameters  *)
(* are derived ("derived", or "faulted") and possibly tampered with, then  *)
(* used ("vouched", "checked"); or a string is serialized ("wire"), maybe  *)
(* changed ("mutated", "resized"), and parsed ("parsed").  call is the     *)
(* last call, with its arguments and what it returned.                     *)
(***************************************************************************)
Init ==
    /\ pc = "start"
    /\ seeds = <<>>
    /\ params = <<>>
    /\ tamper = "none"
    /\ selfcheck = "none"
    /\ call = NoCall
    /\ wire = <<>>
    /\ kind = "none"
    /\ mutation = NoMutation

Modinverse(a) ==
    /\ pc = "start"
    /\ call' = [fn |-> "modinverse", args |-> <<a>>, ret |-> modinverse(a)]
    /\ pc' = "done"
    /\ UNCHANGED <<seeds, params, tamper, selfcheck, wire, kind, mutation>>

Derive(scale_seed, unoffset) ==
    /\ pc = "start"
    /\ LET r == derive_parameters(scale_seed, unoffset)
       IN  /\ call' = [fn |-> "derive_parameters", args |-> <<scale_seed, unoffset>>,
                       ret |-> r]
           /\ params' = r.val
           /\ pc' = IF Returned(r) THEN "derived" ELSE "faulted"
           /\ selfcheck' = IF Returned(r) THEN "passed" ELSE "faulted"
    /\ seeds' = <<scale_seed, unoffset>>
    /\ UNCHANGED <<tamper, wire, kind, mutation>>

\* The parameters are replaced and check_parameters_or_die runs on them.
Tamper(k) ==
    /\ pc = "derived"
    /\ LET p == Tampered(k, params)
           r == check_parameters_or_die(p[1], p[2], p[3])
       IN  /\ params' = p
           /\ call' = [fn |-> "check_parameters_or_die", args |-> p, ret |-> r]
           /\ selfcheck' = IF Returned(r) THEN "passed" ELSE "faulted"
    /\ tamper' = k
    /\ pc' = "tampered"
    /\ UNCHANGED <<seeds, wire, kind, mutation>>

Vouch(value) ==
    /\ pc \in {"derived", "tampered"}
    /\ call' = [fn |-> "vouch", args |-> <<value>>,
                ret |-> vouch(params[1], params[2], params[3], value)]
    /\ pc' = "vouched"
    /\ UNCHANGED <<seeds, params, tamper, selfcheck, wire, kind, mutation>>

\* check with the derived checking parameters, on a value and a candidate
\* voucher for it.
Check ==
    /\ pc = "derived"
    /\ \E expected \in Values : \E voucher \in Vouchers(params, expected) :
           call' = [fn |-> "check",
                    args |-> <<params[3][1], params[3][2], expected, voucher>>,
                    ret |-> Ok(check(params[3][1], params[3][2], expected, voucher))]
    /\ pc' = "checked"
    /\ UNCHANGED <<seeds, params, tamper, selfcheck, wire, kind, mutation>>

\* check on checking parameters that nothing derived.
CheckRaw(unoffset, unscale, expected, voucher) ==
    /\ pc = "start"
    /\ call' = [fn |-> "check", args |-> <<unoffset, unscale, expected, voucher>>,
                ret |-> Ok(check(unoffset, unscale, expected, voucher))]
    /\ pc' = "checked"
    /\ UNCHANGED <<seeds, params, tamper, selfcheck, wire, kind, mutation>>

\* The parameters q are serialized in format k ("check": the checking
\* parameters q[3]; "vouch": all of q), in lower or upper case.
Format(k, upper, q) ==
    /\ pc = "start"
    /\ params' = q
    /\ kind' = k
    /\ wire' = IF k = "check" THEN serialize_checking(q[3], upper)
                ELSE serialize_vouching(q, upper)
    /\ pc' = "wire"
    /\ UNCHANGED <<seeds, tamper, selfcheck, call, mutation>>

\* One byte of the serialized string is replaced by another.
Mutate(pos, b) ==
    /\ pc = "wire"
    /\ pos < Len(wire)
    /\ b # wire[pos + 1]
    /\ wire' = [wire EXCEPT ![pos + 1] = b]
    /\ mutation' = [op |-> "replace", pos |-> pos, byte |-> b, was |-> wire[pos + 1]]
    /\ pc' = "mutated"
    /\ UNCHANGED <<seeds, params, tamper, selfcheck, call, kind>>

\* The serialized string is cut to its first n bytes.
Truncate(n) ==
    /\ pc = "wire"
    /\ n < Len(wire)
    /\ wire' = SubSeq(wire, 1, n)
    /\ mutation' = [op |-> "truncate", pos |-> n, byte |-> 0, was |-> 0]
    /\ pc' = "resized"
    /\ UNCHANGED <<seeds, params, tamper, selfcheck, call, kind>>

\* n bytes b follow the serialized string.
Extend(n, b) ==
    /\ pc = "wire"
    /\ wire' = wire \o [i \in 1..n |-> b]
    /\ mutation' = [op |-> "extend", pos |-> Len(wire), byte |-> b, was |-> 0]
    /\ pc' = "resized"
    /\ UNCHANGED <<seeds, params, tamper, selfcheck, call, kind>>

\* A buffer of n bytes b, serialized from nothing.
Fill(n, b) ==
    /\ pc = "start"
    /\ wire' = [i \in 1..n |-> b]
    /\ mutation' = [op |-> "fill", pos |-> 0, byte |-> b, was |-> 0]
    /\ pc' = "resized"
    /\ UNCHANGED <<seeds, params, tamper, selfcheck, call, kind>>

\* parser is "check" (check::parse_bytes) or "vouch" (vouch::parse_bytes).  A
\* string with one byte replaced goes to the parser of its own format.
Parse(parser) ==
    /\ pc \in {"wire", "mutated", "resized"}
    /\ pc = "mutated" => parser = kind
    /\ call' = [fn |-> parser, args |-> <<wire>>,
                ret |-> IF parser = "check" THEN check_parse_bytes(wire)
                        ELSE vouch_parse_bytes(wire)]
    /\ pc' = "parsed"
    /\ UNCHANGED <<seeds, params, tamper, selfcheck, wire, kind, mutation>>

Next ==
    \/ \E a \in InverseInputs : Modinverse(a)
    \/ \E s \in Seeds, u \in Seeds : Derive(s, u)
    \/ \E k \in TamperKinds : Tamper(k)
    \/ \E v \in Values : Vouch(v)
    \/ Check
    \/ \E uo \in RawInputs, us \in RawInputs, e \in RawInputs, w \in RawInputs :
           CheckRaw(uo, us, e, w)

Spec == Init /\ [][Next]_vars

\* A buffer of its own for one field: lead bytes '-', then the first n of the
\* 16 hex digits of v (format!("--{:016x}", 42), format!("{:015x}g", 42)).
HexBuffer(v, upper, lead, n) ==
    /\ pc = "start"
    /\ wire' = [i \in 1..lead |-> 45] \o SubSeq(format_hex16(v, upper), 1, n)
    /\ kind' = "hex"
    /\ pc' = "wire"
    /\ UNCHANGED <<seeds, params, tamper, selfcheck, call, mutation>>

\* One byte of a buffer that holds a whole field is replaced.
Spoil(pos, b) ==
    /\ kind = "hex"
    /\ Len(wire) >= 16
    /\ Mutate(pos, b)

\* The offsets parse_hex is called at: around the start of the field, at the
\* fields of the two formats, and at and past the end of the buffer.
HexBases == (0..(MaxLead + 1)) \cup {6, 23, 40, 57} \cup {Len(wire), Len(wire) + 1}

\* parse_hex on the buffer, at one of the offsets.
ParseHex ==
    /\ pc \in {"wire", "mutated"}
    /\ \E base \in HexBases :
           call' = [fn |-> "parse_hex", args |-> <<wire, base>>,
                    ret |-> parse_hex(wire, base)]
    /\ pc' = "parsed"
    /\ UNCHANGED <<seeds, params, tamper, selfcheck, wire, kind, mutation>>

Formats == {"check", "vouch"}

NextCodec ==
    \/ \E k \in Formats, upper \in BOOLEAN, q \in FieldQuads : Format(k, upper, q)
    \/ \E pos \in 0..(vouch_REPRESENTATION_BYTE_COUNT - 1), b \in MutBytes :
           Mutate(pos, b)
    \/ \E n \in 0..(vouch_REPRESENTATION_BYTE_COUNT - 1) : Truncate(n)
    \/ \E n \in 1..MaxExtra, b \in FillBytes : Extend(n, b)
    \/ \E n \in 0..(vouch_REPRESENTATION_BYTE_COUNT + MaxExtra), b \in FillBytes :
           Fill(n, b)
    \/ \E parser \in Formats : Parse(parser)

SpecCodec == Init /\ [][NextCodec]_vars

NextHex ==
    \/ \E v \in HexValues, upper \in BOOLEAN, lead \in 0..MaxLead, n \in 0..16 :
           HexBuffer(v, upper, lead, n)
    \/ \E k \in Formats, upper \in BOOLEAN, q \in FieldQuads : Format(k, upper, q)
    \/ \E pos \in 0..(MaxLead + 15), b \in SpoilBytes : Spoil(pos, b)
    \/ ParseHex

SpecHex == Init /\ [][NextHex]_vars

(***************************************************************************)
(* The claims.                                                             *)
(***************************************************************************)
IsHexByte(b) == (48 <= b /\ b <= 57) \/ (65 <= b /\ b <= 70) \/ (97 <= b /\ b <= 102)

\* The positions of the separators after the prefix, per format.
Separators(k) == IF k = "check" THEN {22} ELSE {22, 39, 56}

\* C1: for every pair of seeds and every value v, derive_parameters returns
\* (offset, scale, (unoffset, unscale)) without faulting, with the unoffset it
\* was given; vouch on these parameters returns without faulting, and check
\* accepts the voucher it returns for v.
C1_DerivedRoundTrip ==
    /\ call.fn = "derive_parameters" =>
           /\ Returned(call.ret)
           /\ pc = "derived"
           /\ params[3][1] = seeds[2]
    /\ (pc = "vouched" /\ tamper = "none") =>
           /\ Returned(call.ret)
           /\ check(params[3][1], params[3][2], call.args[1], call.ret.val)

\* C1's case: parameters derived from (u64::MAX, u64::MAX) vouched for a value
\* that is not one of the self-check's points.
C1_Witness ==
    /\ pc = "vouched"
    /\ tamper = "none"
    /\ seeds = <<MAX, MAX>>
    /\ call.args[1] = Sample(1)
    /\ Returned(call.ret)

\* C2: with derived parameters, check(unoffset, unscale, e, w) is true if and
\* only if w = (e + offset) * (scale XOR VOUCHING_TAG) modulo 2^64; the voucher
\* of another value is rejected.
C2_ExactlyTheVoucher ==
    (pc = "checked" /\ params # <<>>) =>
        LET e == call.args[3]
            w == call.args[4]
        IN  /\ call.ret.val <=>
                   (w = wrapping_mul(wrapping_add(e, params[1]),
                                     xor(params[2], VOUCHING_TAG)))
            /\ \A x \in Values \ {e} :
                   w = vouch(params[1], params[2], params[3], x).val => ~call.ret.val

\* C2's case: check accepts the voucher of the "random" point.
C2_Witness ==
    /\ pc = "checked"
    /\ params # <<>>
    /\ call.args[3] = RANDOM_POINT
    /\ call.ret.val

\* C3: for every input a, modinverse returns x, its assertion holding, with
\* (a | 1) * x = 1 modulo 2^64; for an odd a, a * x = 1 modulo 2^64.
C3_ModularInverse ==
    call.fn = "modinverse" =>
        LET a == call.args[1]
        IN  /\ Returned(call.ret)
            /\ wrapping_mul(or1(a), call.ret.val) = U(1)
            /\ (a[1] % 2 = 1 => wrapping_mul(a, call.ret.val) = U(1))

\* C3's case: modinverse(3) = 12297829382473034411 (test_inverse).
C3_Witness ==
    /\ call.fn = "modinverse"
    /\ call.args[1] = U(3)
    /\ call.ret = Ok(Dec(122978, 2938247, 3034411))

\* C4, as claimed: for derived parameters, check_parameters_or_die on the
\* swapped parameters, retagged or not, faults with the message of vouch.
C4_SwapAlwaysFaults ==
    (pc = "tampered" /\ tamper \in {"swap", "swap_retag"}) =>
        call.ret.panic = VOUCH_FAILED

\* 2 * unoffset + ((scale_seed | 1) + 1) * WANTED_SUM modulo 2^64: zero exactly
\* when the swapped and retagged parameters are themselves a matching pair.
SwapDefect(scale_seed, unoffset) ==
    wrapping_add(wrapping_mul(U(2), unoffset),
                 wrapping_mul(wrapping_add(or1(scale_seed), U(1)), WANTED_SUM))

\* C4, amended: the swap without retagging always faults with the message of
\* vouch; the swap with retagging faults with it unless
\* 2 * unoffset + ((scale_seed | 1) + 1) * WANTED_SUM = 0 modulo 2^64, and then
\* check_parameters_or_die returns.
C4_SwapFaultsUnlessMatching ==
    /\ (pc = "tampered" /\ tamper = "swap") => call.ret.panic = VOUCH_FAILED
    /\ (pc = "tampered" /\ tamper = "swap_retag") =>
           IF SwapDefect(seeds[1], seeds[2]) = ZERO
           THEN Returned(call.ret)
           ELSE call.ret.panic = VOUCH_FAILED

\* C4's case: the seeds (43, 123) of test_swap_params_retag, swapped and
\* retagged, fault.
C4_Witness ==
    /\ pc = "tampered"
    /\ tamper = "swap_retag"
    /\ seeds = <<U(43), U(123)>>
    /\ call.ret.panic = VOUCH_FAILED

\* C5: for every four inputs, derived or not, check returns a boolean without
\* faulting, equal to
\* ((voucher + unoffset) * (unscale XOR CHECKING_TAG) + expected) mod 2^64 = WANTED_SUM.
C5_CheckTotal ==
    call.fn = "check" =>
        LET unoffset == call.args[1]
            unscale  == call.args[2]
            expected == call.args[3]
            voucher  == call.args[4]
        IN  /\ Returned(call.ret)
            /\ call.ret.val \in BOOLEAN
            /\ call.ret.val =
                   (wrapping_add(wrapping_mul(wrapping_add(voucher, unoffset),
                                              xor(unscale, CHECKING_TAG)),
                                 expected) = WANTED_SUM)

\* C5's case: parameters that were never derived, with unscale = CHECKING_TAG
\* (de-tagged: 0, even), for which check is true.
C5_Witness ==
    /\ call.fn = "check"
    /\ params = <<>>
    /\ call.args[2] = CHECKING_TAG
    /\ call.ret.val = TRUE

\* C6: parsing the serialization of field values, in lower or upper case, with
\* the parser of its format returns Ok of these values.
C6_ParseInvertsSerialize ==
    (pc = "parsed" /\ mutation.op = "none" /\ call.fn = kind) =>
        /\ Len(wire) = IF kind = "check" THEN 39 ELSE 73
        /\ call.ret = IF kind = "check" THEN ResOk(params[3]) ELSE ResOk(params)

\* C6's case: a vouching string with an upper-case hex digit, parsed.
C6_Witness ==
    /\ pc = "parsed"
    /\ mutation.op = "none"
    /\ kind = "vouch"
    /\ call.fn = "vouch"
    /\ \E i \in 7..Len(wire) : wire[i] \in 65..70
    /\ IsOk(call.ret)

\* C7: a serialized string with one byte replaced is rejected with Err, without
\* a fault, when the byte is one of the prefix (replaced by another byte), a
\* separator (replaced by a byte other than '-') or a hex digit (replaced by a
\* byte outside 0-9a-fA-F).
C7_OneByteReplaced ==
    (pc = "parsed" /\ mutation.op = "replace") =>
        LET pos == mutation.pos
            b   == mutation.byte
        IN  (\/ pos < 6 /\ b # mutation.was
             \/ pos \in Separators(kind) /\ b # 45
             \/ pos >= 6 /\ pos \notin Separators(kind) /\ ~IsHexByte(b))
            => IsErr(call.ret)

\* C7's case: the last hex digit of a vouching string replaced by 'g'.
C7_Witness ==
    /\ pc = "parsed"
    /\ mutation.op = "replace"
    /\ kind = "vouch"
    /\ mutation.pos = 72
    /\ mutation.byte = 103
    /\ IsErr(call.ret)

\* C8: whatever the bytes, check::parse_bytes returns the "Too few bytes" error
\* below 39 bytes and the "Too many bytes" error above 39 (vouch::parse_bytes:
\* 73), and no input of any length makes a parser fault.
C8_LengthFirst ==
    pc = "parsed" =>
        /\ Returned(call.ret)
        /\ (call.fn = "check" /\ Len(wire) < 39) =>
               call.ret = ResErr("Too few bytes in serialized raffle::CheckingParameters")
        /\ (call.fn = "check" /\ Len(wire) > 39) =>
               call.ret = ResErr("Too many bytes in serialized raffle::CheckingParameters")
        /\ (call.fn = "vouch" /\ Len(wire) < 73) =>
               call.ret = ResErr("Too few bytes in serialized raffle::VouchingParameters")
        /\ (call.fn = "vouch" /\ Len(wire) > 73) =>
               call.ret = ResErr("Too many bytes in serialized raffle::VouchingParameters")

\* C8's case: the empty input, parsed by check::parse_bytes.
C8_Witness ==
    /\ pc = "parsed"
    /\ wire = <<>>
    /\ call.fn = "check"
    /\ IsErr(call.ret)

\* C9: derive_parameters(0, 0) = (-WANTED_SUM, VOUCHING_TAG XOR 1,
\* (0, NOT CHECKING_TAG)) and derive_parameters(1, 1) = (13020151265475858601,
\* 7453010330410905431, (1, 10993733730414794684)).
C9_RegressionVectors ==
    call.fn = "derive_parameters" =>
        /\ seeds = <<U(0), U(0)>> =>
               call.ret = Ok(<<wrapping_neg(WANTED_SUM), xor(VOUCHING_TAG, U(1)),
                               <<U(0), not(CHECKING_TAG)>>>>)
        /\ seeds = <<U(1), U(1)>> =>
               call.ret = Ok(<<Dec(130201, 5126547, 5858601),
                               Dec(74530, 1033041, 0905431),
                               <<U(1), Dec(109937, 3373041, 4794684)>>>>)

\* C9's case: derive_parameters(1, 1) has returned.
C9_Witness ==
    /\ call.fn = "derive_parameters"
    /\ seeds = <<U(1), U(1)>>
    /\ Returned(call.ret)

\* C10: for any quadruple, derived or not, on which check_parameters_or_die
\* returned without faulting, vouch returns without faulting for every value.
C10_SelfCheckCertifies ==
    (pc = "vouched" /\ selfcheck = "passed") => Returned(call.ret)

\* C10's case: parameters that derive_parameters did not return (swapped and
\* retagged) pass check_parameters_or_die and vouch for a value that is not one
\* of its points.
C10_Witness ==
    /\ pc = "vouched"
    /\ tamper = "swap_retag"
    /\ selfcheck = "passed"
    /\ call.args[1] = Sample(1)
    /\ Returned(call.ret)

\* The value of the hex digit b, whatever its case.
HexValue(b) ==
    IF b <= 57 THEN b - 48 ELSE IF b <= 70 THEN b - 55 ELSE b - 87

\* The big-endian value of the 16 hex digits of bytes from offset base: byte j
\* of the u64, counted from the least significant, is digits 15 - 2j and
\* 16 - 2j of the field.
FieldValue(bytes, base) ==
    [j \in 1..8 |->
        16 * HexValue(bytes[base + 17 - 2 * j]) + HexValue(bytes[base + 18 - 2 * j])]

\* C11: for every buffer and every offset base, parse_hex returns without a
\* fault; it returns Some(v) exactly when base + 16 <= bytes.len() and the 16
\* bytes from base are hex digits, v being their big-endian value read without
\* regard to case; in every other case it returns None.
C11_ParseHexTotal ==
    call.fn = "parse_hex" =>
        LET bytes == call.args[1]
            base  == call.args[2]
        IN  /\ Returned(call.ret)
            /\ IF /\ base + 16 <= Len(bytes)
                  /\ \A i \in 1..16 : IsHexByte(bytes[base + i])
               THEN call.ret.val = Some(FieldValue(bytes, base))
               ELSE call.ret.val = None

\* C11's case: an upper-case field after two other bytes, parsed at offset 2
\* (format!("--{:016X}", 0x123456789abcdef0u64)).
C11_Witness ==
    /\ call.fn = "parse_hex"
    /\ call.args[2] = 2
    /\ Len(call.args[1]) = 18
    /\ \E i \in 3..18 : call.args[1][i] \in 65..70
    /\ call.ret = Ok(Some(Lit(<<18, 52, 86, 120, 154, 188, 222, 240>>)))

====
